---- MODULE Spec2Model ----
(***************************************************************************)
(* Model of the schema fetching script (src/unnamed/part_000): the         *)
(* introspection request, the promise fetchSchema returns, the renderer    *)
(* generateSchemaFromIntrospection with its helper getTypeString, and the  *)
(* main flow that writes schema.graphql.                                   *)
(*                                                                         *)
(* JavaScript values are tagged records: [t |-> "undefined"],              *)
(* [t |-> "null"], [t |-> "str", v |-> <<characters>>],                    *)
(* [t |-> "arr", v |-> <<values>>] and [t |-> "obj", ...properties].       *)
(* A thrown exception is [t |-> "throw", v |-> <<kind>>].  Text is a       *)
(* sequence of one-character strings, so that prefixes, joins and line     *)
(* structure are computed and not assumed.                                 *)
(*                                                                         *)
(* A second specification, StoreSpec, models the GraphQL server            *)
(* (src/unnamed/part_001): the users and posts arrays and the resolvers,   *)
(* and the REST handlers of the Go backend (src/main.go) that call them.   *)
(* The generated client package is not part of the sources; its calls      *)
(* GetUsers, GetUser and DeleteUser are modelled from their use.           *)
(***************************************************************************)
EXTENDS Integers, Sequences, FiniteSets, TLC

VARIABLES
    pc,          \* position of main(): start, awaiting, generate, write, done, exited
    body,        \* what the server answers to the introspection request
    promise,     \* the promise of fetchSchema: pending, resolved or rejected
    ended,       \* res.on('end') has fired
    errored,     \* req.on('error') has fired
    schema,      \* main's local `schema` (the awaited response.data)
    schemaContent, \* main's local `schemaContent`
    file,        \* the content of schema.graphql
    console,     \* lines written by console.log
    stderr,      \* message written by console.error
    exitCode,    \* process exit status, -1 while running
    renderCalls, \* number of invocations of generateSchemaFromIntrospection
    users,       \* the server's `users` array
    posts,       \* the server's `posts` array
    last,        \* the last request, the store before it and what it was answered
    requests     \* number of mutations sent so far

vars == <<pc, body, promise, ended, errored, schema, schemaContent, file,
          console, stderr, exitCode, renderCalls>>

----------------------------------------------------------------------------
(* JavaScript values *)

Undefined == [t |-> "undefined"]
Null == [t |-> "null"]
Str(s) == [t |-> "str", v |-> s]
Arr(xs) == [t |-> "arr", v |-> xs]
Kind(k) == [t |-> "kind", v |-> k]
Throw(e) == [t |-> "throw", v |-> e]

TypeError == Throw("TypeError")
StructureError == Throw("Error")

IsThrow(v) == v.t = "throw"
IsNullish(v) == v.t \in {"undefined", "null"}

\* ToBoolean: undefined, null and '' are falsy; strings, arrays, objects truthy
Truthy(v) == ~IsNullish(v) /\ ~(v.t = "str" /\ v.v = <<>>)

\* property read o.k of a non-nullish value; a missing property is undefined
Get(o, k) == IF o.t = "obj" /\ k \in DOMAIN o THEN o[k] ELSE Undefined

isArray(v) == v.t = "arr"

\* ToString as template literals and '+' apply it
ToStr(v) ==
    CASE v.t = "str" -> v.v
      [] v.t = "kind" -> <<v.v>>
      [] v.t = "null" -> <<"n", "u", "l", "l">>
      [] v.t = "undefined" -> <<"u", "n", "d", "e", "f", "i", "n", "e", "d">>
      [] OTHER -> <<"[", "o", "b", "j", "e", "c", "t", " ", "O", "b", "j", "e", "c", "t", "]">>

\* String.prototype.startsWith
startsWith(s, p) == Len(s) >= Len(p) /\ SubSeq(s, 1, Len(p)) = p

\* Array.prototype.join over a sequence of texts
RECURSIVE join(_, _)
join(xs, sep) ==
    IF xs = <<>> THEN <<>>
    ELSE IF Len(xs) = 1 THEN xs[1]
    ELSE xs[1] \o sep \o join(Tail(xs), sep)

NL == "\n"


----------------------------------------------------------------------------
(* generateSchemaFromIntrospection and its helper getTypeString *)

\* string concatenation a + b where either operand may have thrown
Cat(a, b) ==
    IF IsThrow(a) THEN a
    ELSE IF IsThrow(b) THEN b
    ELSE Str(ToStr(a) \o ToStr(b))

\* an array of one more element, where the element or the rest may have thrown
Cons(x, rest) ==
    IF IsThrow(x) THEN x
    ELSE IF IsThrow(rest) THEN rest
    ELSE Arr(<<x>> \o rest.v)

\* getTypeString rendering a missing ofType as nothing
RECURSIVE getTypeStringLenient(_)
getTypeStringLenient(type) ==
    IF IsNullish(type) THEN Str(<<>>)
    ELSE IF Get(type, "kind") = Kind("NON_NULL") THEN
        Cat(getTypeStringLenient(Get(type, "ofType")), Str(<<"!">>))
    ELSE IF Get(type, "kind") = Kind("LIST") THEN
        Cat(Str(<<"[">>), Cat(getTypeStringLenient(Get(type, "ofType")), Str(<<"]">>)))
    ELSE Get(type, "name")

\* getTypeString unwrapping one level only
getTypeStringOneLevel(type) ==
    IF IsNullish(type) THEN TypeError
    ELSE IF Get(type, "kind") = Kind("NON_NULL") THEN
        Cat(Get(Get(type, "ofType"), "name"), Str(<<"!">>))
    ELSE IF Get(type, "kind") = Kind("LIST") THEN
        Cat(Str(<<"[">>), Cat(Get(Get(type, "ofType"), "name"), Str(<<"]">>)))
    ELSE Get(type, "name")

\* function getTypeString(type): type.kind of undefined/null throws a TypeError
RECURSIVE getTypeString(_)
getTypeString(type) ==
    IF IsNullish(type) THEN TypeError
    ELSE IF Get(type, "kind") = Kind("NON_NULL") THEN
        Cat(getTypeString(Get(type, "ofType")), Str(<<"!">>))
    ELSE IF Get(type, "kind") = Kind("LIST") THEN
        Cat(Str(<<"[">>), Cat(getTypeString(Get(type, "ofType")), Str(<<"]">>)))
    ELSE Get(type, "name")

\* the selection falling back to the top level when __schema carries no array
selectTypesEitherPlace(payload) ==
    IF IsNullish(payload) THEN TypeError
    ELSE IF isArray(Get(Get(payload, "__schema"), "types"))
         THEN Get(Get(payload, "__schema"), "types")
         ELSE Get(payload, "types")

\* const types = schema.__schema ? schema.__schema.types : schema.types
selectTypes(payload) ==
    IF IsNullish(payload) THEN TypeError
    ELSE IF Truthy(Get(payload, "__schema"))
         THEN Get(Get(payload, "__schema"), "types")
         ELSE Get(payload, "types")

\* if (!types || !Array.isArray(types)) throw ...
typesRejected(types) == ~Truthy(types) \/ ~isArray(types)

\* the predicate given to types.filter throws a TypeError: type.name of
\* undefined/null, or name.startsWith of a truthy value that is not a string
filterThrows(type) ==
    \/ IsNullish(type)
    \/ Truthy(Get(type, "name")) /\ Get(type, "name").t # "str"

\* the filter testing for a one-character prefix
isCustomTypeOneUnderscore(type) ==
    /\ Truthy(Get(type, "name"))
    /\ ~startsWith(Get(type, "name").v, <<"_">>)
    /\ \/ Get(type, "kind") = Kind("OBJECT")
       \/ Get(type, "kind") = Kind("INPUT_OBJECT")
       \/ Get(type, "kind") = Kind("ENUM")

\* the predicate given to types.filter
isCustomType(type) ==
    /\ Truthy(Get(type, "name"))
    /\ ~startsWith(Get(type, "name").v, <<"_", "_">>)
    /\ \/ Get(type, "kind") = Kind("OBJECT")
       \/ Get(type, "kind") = Kind("INPUT_OBJECT")
       \/ Get(type, "kind") = Kind("ENUM")

\* the filter keeping only the last descriptor of each name
RECURSIVE customTypesUnique(_)
customTypesUnique(types) ==
    IF types = <<>> THEN Arr(<<>>)
    ELSE IF filterThrows(Head(types)) THEN TypeError
    ELSE IF /\ isCustomType(Head(types))
            /\ \A i \in 2..Len(types) : Get(types[i], "name") # Get(Head(types), "name")
    THEN Cons(Head(types), customTypesUnique(Tail(types)))
    ELSE customTypesUnique(Tail(types))

\* types.filter(...): the kept descriptors in input order, or a thrown TypeError
RECURSIVE customTypes(_)
customTypes(types) ==
    IF types = <<>> THEN Arr(<<>>)
    ELSE IF filterThrows(Head(types)) THEN TypeError
    ELSE IF isCustomType(Head(types)) THEN Cons(Head(types), customTypes(Tail(types)))
    ELSE customTypes(Tail(types))

\* arg => `${arg.name}: ${getTypeString(arg.type)}`
renderArg(arg) ==
    IF IsNullish(arg) THEN TypeError
    ELSE Cat(Str(ToStr(Get(arg, "name")) \o <<":", " ">>), getTypeString(Get(arg, "type")))

\* field.args.map(...): the array of argument texts
RECURSIVE mapArgs(_)
mapArgs(args) ==
    IF args = <<>> THEN Arr(<<>>)
    ELSE Cons(renderArg(Head(args)), mapArgs(Tail(args)))

\* args.join(', ') of an array of texts
joinArgs(mapped) ==
    IF IsThrow(mapped) THEN mapped
    ELSE Str(join([i \in 1..Len(mapped.v) |-> mapped.v[i].v], <<",", " ">>))

\* the argument list added without the test of field.args.length
renderArgsAlways(args) ==
    IF ~Truthy(args) THEN Str(<<>>)
    ELSE IF args.t = "str" THEN TypeError
    ELSE IF ~isArray(args) THEN Str(<<>>)
    ELSE Cat(Str(<<"(">>), Cat(joinArgs(mapArgs(args.v)), Str(<<")">>)))

\* the text `(${args})` added when field.args && field.args.length > 0; the
\* `map` of a non-empty string is not a function
renderArgs(args) ==
    IF ~Truthy(args) THEN Str(<<>>)
    ELSE IF args.t = "str" THEN TypeError
    ELSE IF ~isArray(args) \/ Len(args.v) = 0 THEN Str(<<>>)
    ELSE Cat(Str(<<"(">>), Cat(joinArgs(mapArgs(args.v)), Str(<<")">>)))

\* one iteration of `for (const field of type.fields)`: the line added to result
renderField(field) ==
    IF IsNullish(field) THEN TypeError
    ELSE Cat(Cat(Str(<<" ", " ">> \o ToStr(Get(field, "name"))),
                 renderArgs(Get(field, "args"))),
             Cat(Str(<<":", " ">>),
                 Cat(getTypeString(Get(field, "type")), Str(<<NL>>))))

\* one iteration of `for (const field of type.inputFields)`
renderInputField(field) ==
    IF IsNullish(field) THEN TypeError
    ELSE Cat(Str(<<" ", " ">> \o ToStr(Get(field, "name")) \o <<":", " ">>),
             Cat(getTypeString(Get(field, "type")), Str(<<NL>>)))

\* one iteration of `for (const value of type.enumValues)`
renderEnumValue(value) ==
    IF IsNullish(value) THEN TypeError
    ELSE Str(<<" ", " ">> \o ToStr(Get(value, "name")) \o <<NL>>)

\* which of the three loops the member collection of a type of this kind runs
renderMember(kind, member) ==
    IF kind = Kind("OBJECT") THEN renderField(member)
    ELSE IF kind = Kind("INPUT_OBJECT") THEN renderInputField(member)
    ELSE renderEnumValue(member)

RECURSIVE renderMembers(_, _)
renderMembers(kind, members) ==
    IF members = <<>> THEN Str(<<>>)
    ELSE Cat(renderMember(kind, Head(members)), renderMembers(kind, Tail(members)))

\* the loop run without the `if (type.fields)` guard
renderCollectionUnguarded(kind, coll) ==
    IF ~isArray(coll) THEN TypeError ELSE renderMembers(kind, coll.v)

\* `if (type.fields) { for (const field of type.fields) ... }`: a falsy collection
\* is skipped, an array is iterated, any other truthy value throws a TypeError
renderCollection(kind, coll) ==
    IF ~Truthy(coll) THEN Str(<<>>)
    ELSE IF ~isArray(coll) THEN TypeError
    ELSE renderMembers(kind, coll.v)

keyword(kind) ==
    IF kind = Kind("OBJECT") THEN <<"t", "y", "p", "e", " ">>
    ELSE IF kind = Kind("INPUT_OBJECT") THEN <<"i", "n", "p", "u", "t", " ">>
    ELSE <<"e", "n", "u", "m", " ">>

collectionOf(type) ==
    IF Get(type, "kind") = Kind("OBJECT") THEN Get(type, "fields")
    ELSE IF Get(type, "kind") = Kind("INPUT_OBJECT") THEN Get(type, "inputFields")
    ELSE Get(type, "enumValues")

\* the body of `for (const type of customTypes)`: the block added to result
renderType(type) ==
    Cat(Str(keyword(Get(type, "kind")) \o ToStr(Get(type, "name")) \o <<" ", "{", NL>>),
        Cat(renderCollection(Get(type, "kind"), collectionOf(type)),
            Str(<<"}", NL, NL>>)))

RECURSIVE renderTypes(_)
renderTypes(types) ==
    IF types = <<>> THEN Str(<<>>)
    ELSE Cat(renderType(Head(types)), renderTypes(Tail(types)))

\* the types the renderer reads, or the exception thrown before the filter
checkedTypes(payload) ==
    IF IsThrow(selectTypes(payload)) THEN selectTypes(payload)
    ELSE IF typesRejected(selectTypes(payload)) THEN StructureError
    ELSE selectTypes(payload)

\* the loop over customTypes, when the filter has not thrown
renderCustom(custom) == IF IsThrow(custom) THEN custom ELSE renderTypes(custom.v)

\* function generateSchemaFromIntrospection(schema): the returned text, or the
\* exception it throws
generateSchemaFromIntrospection(payload) ==
    IF IsThrow(checkedTypes(payload)) THEN checkedTypes(payload)
    ELSE renderCustom(customTypes(checkedTypes(payload).v))

\* console.log(`Found ${customTypes.length} custom types:`, names)
foundText(custom) ==
    IF IsThrow(custom) THEN <<>>
    ELSE <<[line |-> "Found custom types", count |-> Len(custom.v),
            names |-> [i \in 1..Len(custom.v) |-> Get(custom.v[i], "name")]]>>

\* the console.log line of generateSchemaFromIntrospection, when it is reached
foundLine(payload) ==
    IF IsThrow(checkedTypes(payload)) THEN <<>>
    ELSE foundText(customTypes(checkedTypes(payload).v))

----------------------------------------------------------------------------
(* fetchSchema: the introspection query and the response handlers *)

\* number of nested `ofType` selections in `fragment TypeRef`
QueryDepth == 7

TypeRefNode(kind, name, ofType) ==
    [t |-> "obj", kind |-> Kind(kind), name |-> name, ofType |-> ofType]

\* what `fragment TypeRef` selects of a type reference of the served schema: kind
\* and name at every level, ofType at the first QueryDepth levels only
RECURSIVE TypeRefFragment(_, _)
TypeRefFragment(ref, depth) ==
    IF IsNullish(ref) THEN ref
    ELSE IF depth = 0 THEN TypeRefNode(ref.kind.v, ref.name, Undefined)
    ELSE TypeRefNode(ref.kind.v, ref.name, TypeRefFragment(ref.ofType, depth - 1))

\* JSON.stringify of the `errors` array of a GraphQL response
RECURSIVE stringifyItems(_)
stringifyItems(items) ==
    IF items = <<>> THEN <<>>
    ELSE LET one == <<"{", "\"", "m", "e", "s", "s", "a", "g", "e", "\"", ":", "\"">> \o ToStr(Get(Head(items), "message")) \o <<"\"", "}">>
         IN  IF Len(items) = 1 THEN one ELSE one \o <<",">> \o stringifyItems(Tail(items))

stringify(errors) ==
    IF isArray(errors) THEN <<"[">> \o stringifyItems(errors.v) \o <<"]">>
    ELSE <<"\"">> \o ToStr(errors) \o <<"\"">>

\* the body of the response: text that is not JSON, or the JSON text of a value
NotJson == [json |-> FALSE, value |-> Undefined]
Json(v) == [json |-> TRUE, value |-> v]

Pending == [state |-> "pending", value |-> Undefined]

\* resolve/reject settle the promise once; later calls are ignored
settle(p, state, value) ==
    IF p.state = "pending" THEN [state |-> state, value |-> value] ELSE p

\* the handler resolving with the data whatever `errors` holds
onEndIgnoringErrors(b) ==
    IF ~b.json THEN
        [state |-> "rejected", value |-> Str(<<"F", "a", "i", "l", "e", "d", " ", "t", "o", " ", "p", "a", "r", "s", "e", " ", "r", "e", "s", "p", "o", "n", "s", "e", ":", " ">> \o <<"U", "n", "e", "x", "p", "e", "c", "t", "e", "d", " ", "t", "o", "k", "e", "n", " ", "<">>)]
    ELSE IF IsNullish(b.value) THEN
        [state |-> "rejected", value |-> Str(<<"F", "a", "i", "l", "e", "d", " ", "t", "o", " ", "p", "a", "r", "s", "e", " ", "r", "e", "s", "p", "o", "n", "s", "e", ":", " ">> \o <<"C", "a", "n", "n", "o", "t", " ", "r", "e", "a", "d", " ", "p", "r", "o", "p", "e", "r", "t", "i", "e", "s">>)]
    ELSE [state |-> "resolved", value |-> Get(b.value, "data")]

\* res.on('end', ...): the state and value the handler settles the promise with
onEnd(b) ==
    IF ~b.json THEN
        [state |-> "rejected", value |-> Str(<<"F", "a", "i", "l", "e", "d", " ", "t", "o", " ", "p", "a", "r", "s", "e", " ", "r", "e", "s", "p", "o", "n", "s", "e", ":", " ">> \o <<"U", "n", "e", "x", "p", "e", "c", "t", "e", "d", " ", "t", "o", "k", "e", "n", " ", "<">>)]
    ELSE IF IsNullish(b.value) THEN
        [state |-> "rejected", value |-> Str(<<"F", "a", "i", "l", "e", "d", " ", "t", "o", " ", "p", "a", "r", "s", "e", " ", "r", "e", "s", "p", "o", "n", "s", "e", ":", " ">> \o <<"C", "a", "n", "n", "o", "t", " ", "r", "e", "a", "d", " ", "p", "r", "o", "p", "e", "r", "t", "i", "e", "s">>)]
    ELSE IF Truthy(Get(b.value, "errors")) THEN
        [state |-> "rejected",
         value |-> Str(<<"G", "r", "a", "p", "h", "Q", "L", " ", "e", "r", "r", "o", "r", "s", ":", " ">> \o stringify(Get(b.value, "errors")))]
    ELSE [state |-> "resolved", value |-> Get(b.value, "data")]

\* req.on('error', ...): reject(error)
onError == [state |-> "rejected", value |-> Str(<<"c", "o", "n", "n", "e", "c", "t", " ", "E", "C", "O", "N", "N", "R", "E", "F", "U", "S", "E", "D">>)]

\* error.message of an exception generateSchemaFromIntrospection throws
messageOf(thrown) ==
    IF thrown = StructureError THEN Str(<<"I", "n", "v", "a", "l", "i", "d", " ", "s", "c", "h", "e", "m", "a", " ", "s", "t", "r", "u", "c", "t", "u", "r", "e", ":", " ", "t", "y", "p", "e", "s", " ", "n", "o", "t", " ", "f", "o", "u", "n", "d", " ", "o", "r", " ", "n", "o", "t", " ", "a", "n", " ", "a", "r", "r", "a", "y">>) ELSE Str(<<"C", "a", "n", "n", "o", "t", " ", "r", "e", "a", "d", " ", "p", "r", "o", "p", "e", "r", "t", "i", "e", "s">>)

----------------------------------------------------------------------------
(* The responses the server may give: the inputs of a run *)

MaxWrap == 8      \* wrappers around a named type in the served schema
MaxRawWrap == 3   \* wrappers in a type reference of an arbitrary payload
MaxTypes == 3     \* type descriptors in a payload
MaxFields == 2    \* fields of an object type
MaxArgs == 2      \* arguments of a field

RECURSIVE SeqsUpTo(_, _)
SeqsUpTo(S, n) ==
    IF n = 0 THEN {<<>>}
    ELSE LET shorter == SeqsUpTo(S, n - 1)
         IN  shorter \cup {<<x>> \o q : x \in S, q \in {r \in shorter : Len(r) = n - 1}}

Wrappers == {"NON_NULL", "LIST"}

\* a type reference as the server holds it: wrappers around a named type
RECURSIVE FullRef(_, _)
FullRef(ws, name) ==
    IF ws = <<>> THEN TypeRefNode("SCALAR", Str(name), Null)
    ELSE TypeRefNode(Head(ws), Null, FullRef(Tail(ws), name))

\* GraphQL never wraps NON_NULL directly in NON_NULL
ValidChain(ws) == \A i \in 1..(Len(ws) - 1) : ~(ws[i] = "NON_NULL" /\ ws[i + 1] = "NON_NULL")

\* references as the introspection query returns them from a GraphQL server
ServedRefs ==
    {TypeRefFragment(FullRef(ws, <<"I", "n", "t">>), QueryDepth) :
        ws \in {c \in SeqsUpTo(Wrappers, MaxWrap) : ValidChain(c)}}

\* references of arbitrary payloads: every wrapper chain, and nodes that break
\* the TypeRef shape
RawRefs ==
    {FullRef(ws, <<"I", "n", "t">>) : ws \in SeqsUpTo(Wrappers, MaxRawWrap)}
    \cup {TypeRefNode("OBJECT", Str(<<"U", "s", "e", "r">>), Null),
          TypeRefNode("LIST", Str(<<"U", "s", "e", "r">>), Null),
          TypeRefNode("NON_NULL", Str(<<"U", "s", "e", "r">>), Undefined),
          TypeRefNode("SCALAR", Null, Null),
          TypeRefNode("NON_NULL", Null, TypeRefNode("SCALAR", Null, Null)),
          TypeRefNode("LIST", Str(<<"U", "s", "e", "r">>), TypeRefNode("SCALAR", Str(<<"I", "n", "t">>), Null)),
          Null, Undefined}

Refs == ServedRefs \cup RawRefs

IntRef == FullRef(<<>>, <<"I", "n", "t">>)
ListRef == FullRef(<<"NON_NULL", "LIST", "NON_NULL">>, <<"S", "t", "r", "i", "n", "g">>)

InputValue(name, type) == [t |-> "obj", name |-> Str(name), type |-> type]
Field(name, args, type) == [t |-> "obj", name |-> Str(name), args |-> args, type |-> type]
EnumValue(name) == [t |-> "obj", name |-> Str(name)]
TypeDescriptor(kind, name, fields, inputFields, enumValues) ==
    [t |-> "obj", kind |-> Kind(kind), name |-> name, fields |-> fields,
     inputFields |-> inputFields, enumValues |-> enumValues]
Payload(schemaKey, types) == [t |-> "obj", __schema |-> schemaKey, types |-> types]
Wrapped(types) == Payload([t |-> "obj", types |-> types], Undefined)

ArgPool == {InputValue(<<"n">>, IntRef), InputValue(<<"l">>, ListRef)}
ArgLists ==
    {Arr(q) : q \in SeqsUpTo(ArgPool, MaxArgs)} \cup {Null, Undefined}

\* fields: one with each argument list, and two without arguments
FieldPool ==
    {Field(<<"f">>, Arr(<<InputValue(<<"n">>, IntRef), InputValue(<<"l">>, ListRef)>>),
           IntRef),
     Field(<<"g">>, Arr(<<>>), ListRef),
     Field(<<"h">>, Null, IntRef)}
FieldLists ==
    {Arr(q) : q \in SeqsUpTo(FieldPool, MaxFields)}
    \cup {Arr(<<Field(<<"f">>, a, IntRef)>>) : a \in ArgLists}
    \cup {Arr(<<Field(<<"g">>, Arr(<<>>), IntRef), Field(<<"f">>, a, ListRef)>>) :
            a \in ArgLists}
    \cup {Null, Undefined}

\* one object type whose field, argument or input field carries each reference
RefPayloads ==
    {Wrapped(Arr(<<TypeDescriptor("OBJECT", Str(<<"Q", "u", "e", "r", "y">>),
                      Arr(<<Field(<<"f">>, Arr(<<>>), r)>>), Null, Null)>>)) : r \in Refs}
    \cup {Wrapped(Arr(<<TypeDescriptor("OBJECT", Str(<<"Q", "u", "e", "r", "y">>),
                      Arr(<<Field(<<"f">>, Arr(<<InputValue(<<"a">>, r)>>), IntRef)>>),
                      Null, Null)>>)) : r \in Refs}
    \cup {Wrapped(Arr(<<TypeDescriptor("INPUT_OBJECT", Str(<<"Q", "u", "e", "r", "y">>), Null,
                      Arr(<<InputValue(<<"i">>, r)>>), Null)>>)) : r \in Refs}

\* one object type with each list of fields
FieldPayloads ==
    {Wrapped(Arr(<<TypeDescriptor("OBJECT", Str(<<"Q", "u", "e", "r", "y">>), fs, Null, Null)>>)) :
        fs \in FieldLists}

Kinds == {"OBJECT", "INPUT_OBJECT", "ENUM", "SCALAR", "INTERFACE", "UNION"}

OneField == Arr(<<Field(<<"f">>, Arr(<<>>), IntRef)>>)
OneInput == Arr(<<InputValue(<<"i">>, ListRef)>>)
TwoValues == Arr(<<EnumValue(<<"X">>), EnumValue(<<"Y">>)>>)

\* the descriptors the type sequences are drawn from
DescPool ==
    {TypeDescriptor(k, Str(<<"U", "s", "e", "r">>), Null, Null, Null) :
        k \in {"OBJECT", "ENUM", "UNION"}}
    \cup {TypeDescriptor("OBJECT", Str(<<"_", "_", "T", "y", "p", "e">>), Null, Null, Null),
          TypeDescriptor("OBJECT", Str(<<"P">>), OneField, OneInput, TwoValues)}

\* further descriptors, paired with each other
MemberPool ==
    {TypeDescriptor("SCALAR", Str(<<"U", "s", "e", "r">>), Null, Null, Null),
     TypeDescriptor("INPUT_OBJECT", Str(<<"U", "s", "e", "r">>), Null, Null, Null),
     TypeDescriptor("OBJECT", Null, Null, Null, Null),
     TypeDescriptor("INTERFACE", Str(<<"U", "s", "e", "r">>), Null, Null, Null),
     TypeDescriptor("OBJECT", Str(<<>>), Null, Null, Null),
     TypeDescriptor("OBJECT", Str(<<"_", "B">>), Null, Null, Null),
     TypeDescriptor("ENUM", Str(<<"_", "_", "T", "y", "p", "e">>), Null, Null, TwoValues),
     TypeDescriptor("OBJECT", Str(<<"_">>), Undefined, Null, Null),
     TypeDescriptor("INPUT_OBJECT", Str(<<"I">>), OneField, OneInput, TwoValues),
     TypeDescriptor("INPUT_OBJECT", Str(<<"J">>), OneField, Null, TwoValues),
     TypeDescriptor("ENUM", Str(<<"R">>), OneField, OneInput, TwoValues),
     TypeDescriptor("ENUM", Str(<<"S">>), OneField, OneInput, Undefined),
     TypeDescriptor("INTERFACE", Str(<<"N">>), OneField, Null, Null),
     TypeDescriptor("OBJECT", Str(<<"E">>), Arr(<<>>), Undefined, Undefined),
     TypeDescriptor("OBJECT", Str(<<"_", "_", "T", "y", "p", "e">>), Arr(<<Null>>), Null, Null),
     TypeDescriptor("UNION", Str(<<"U">>), Str(<<"s">>), Str(<<"s">>), Str(<<"s">>))}

\* the five types of the filtering example
ExampleTypes ==
    Arr(<<TypeDescriptor("OBJECT", Str(<<"U", "s", "e", "r">>), OneField, Null, Null),
          TypeDescriptor("OBJECT", Str(<<"_", "_", "T", "y", "p", "e">>), OneField, Null, Null),
          TypeDescriptor("ENUM", Str(<<"R", "o", "l", "e">>), Null, Null, TwoValues),
          TypeDescriptor("INPUT_OBJECT", Str(<<"C", "r", "e", "a", "t", "e", "U", "s", "e", "r", "I", "n", "p", "u", "t">>), Null, OneInput, Null),
          TypeDescriptor("UNION", Str(<<"S", "e", "a", "r", "c", "h", "R", "e", "s", "u", "l", "t">>), Null, Null, Null)>>)

TypeLists ==
    {Arr(q) : q \in SeqsUpTo(DescPool, MaxTypes)}
    \cup {Arr(q) : q \in SeqsUpTo(MemberPool, 2)}
    \cup {ExampleTypes}

TypePayloads == {Wrapped(ts) : ts \in TypeLists}

UserType == TypeDescriptor("OBJECT", Str(<<"U", "s", "e", "r">>), OneField, Null, Null)
RoleType == TypeDescriptor("ENUM", Str(<<"R">>), Null, Null, TwoValues)

\* the shapes of the payload around `types`, and malformed collections
ShapePayloads ==
    {Undefined, Null, Str(<<"x">>)}
    \cup {Payload(k, ts) :
            k \in {Undefined, Null, Str(<<>>),
                   [t |-> "obj", types |-> Undefined],
                   [t |-> "obj", types |-> Null],
                   [t |-> "obj", types |-> Str(<<"n", "o", "t", "-", "a", "n", "-", "a", "r", "r", "a", "y">>)],
                   [t |-> "obj", types |-> Arr(<<>>)],
                   [t |-> "obj", types |-> Arr(<<RoleType>>)]},
            ts \in {Undefined, Null, Str(<<>>), Str(<<"n", "o", "t", "-", "a", "n", "-", "a", "r", "r", "a", "y">>), UserType,
                    Arr(<<>>), Arr(<<UserType>>)}}
    \cup {Wrapped(Arr(<<UserType, bad>>)) : bad \in {Null, Undefined, Str(<<"s">>)}}
    \cup {Wrapped(Arr(<<TypeDescriptor("OBJECT", [t |-> "obj"], Null, Null, Null)>>))}
    \cup {Wrapped(Arr(<<TypeDescriptor("OBJECT", Str(<<"Q", "u", "e", "r", "y">>), c, Null, Null)>>)) :
            c \in {Str(<<"s">>), [t |-> "obj"], Arr(<<Null>>),
                   Arr(<<Field(<<"f">>, Str(<<"s">>), IntRef)>>),
                   Arr(<<Field(<<"f">>, [t |-> "obj"], IntRef)>>),
                   Arr(<<Field(<<"f">>, Arr(<<Null>>), IntRef)>>),
                   Arr(<<[t |-> "obj", name |-> Null, args |-> Undefined, type |-> IntRef]>>)}}
    \cup {Wrapped(Arr(<<TypeDescriptor("INPUT_OBJECT", Str(<<"Q", "u", "e", "r", "y">>), Null, c, Null)>>)) :
            c \in {Str(<<"s">>), Arr(<<Undefined>>)}}
    \cup {Wrapped(Arr(<<TypeDescriptor("ENUM", Str(<<"Q", "u", "e", "r", "y">>), Null, Null, c)>>)) :
            c \in {[t |-> "obj"], Arr(<<Null>>), Arr(<<[t |-> "obj"]>>)}}

Payloads == RefPayloads \cup FieldPayloads \cup TypePayloads \cup ShapePayloads

Boom == [t |-> "obj", message |-> Str(<<"b", "o", "o", "m">>)]
Oops == [t |-> "obj", message |-> Str(<<"o", "o", "p", "s">>)]

Response(errors, data) == [t |-> "obj", errors |-> errors, data |-> data]

\* response bodies on which fetchSchema fails
FailingBodies ==
    {NotJson, Json(Null), Json(Response(Str(<<"b", "o", "o", "m">>), Undefined))}
    \cup {Json(Response(Arr(e), d)) :
            e \in {<<>>, <<Boom>>, <<Oops, Boom>>},
            d \in {Undefined, Null, Wrapped(Arr(<<UserType>>))}}

Bodies ==
    {Json(Response(Undefined, p)) : p \in Payloads}
    \cup {Json(Response(Null, Wrapped(Arr(<<UserType>>)))),
          Json([t |-> "obj"])}
    \cup FailingBodies

\* schema.graphql before the run: absent, or left by an earlier run
Absent == [t |-> "absent"]
OldFile == Str(<<"o", "l", "d">>)

----------------------------------------------------------------------------
(* The GraphQL server: the in-memory store and its resolvers *)

Num(n) == [t |-> "num", v |-> n]
Bool(b) == [t |-> "bool", v |-> b]

NewUser(id, name, email, age) ==
    [t |-> "obj", id |-> id, name |-> name, email |-> email, age |-> age]
NewPost(id, title, content, authorId) ==
    [t |-> "obj", id |-> id, title |-> title, content |-> content, authorId |-> authorId]

\* the sample data the server starts with
SampleUsers ==
    <<NewUser(Str(<<"1">>), Str(<<"J", "o", "h", "n", " ", "D", "o", "e">>),
              Str(<<"j", "o", "h", "n", "@", "e", "x", "a", "m", "p", "l", "e", ".", "c", "o", "m">>), Num(30)),
      NewUser(Str(<<"2">>), Str(<<"J", "a", "n", "e", " ", "S", "m", "i", "t", "h">>),
              Str(<<"j", "a", "n", "e", "@", "e", "x", "a", "m", "p", "l", "e", ".", "c", "o", "m">>), Num(25)),
      NewUser(Str(<<"3">>), Str(<<"B", "o", "b", " ", "J", "o", "h", "n", "s", "o", "n">>),
              Str(<<"b", "o", "b", "@", "e", "x", "a", "m", "p", "l", "e", ".", "c", "o", "m">>), Num(35))>>

SamplePosts ==
    <<NewPost(Str(<<"1">>), Str(<<"F", "i", "r", "s", "t", " ", "P", "o", "s", "t">>),
              Str(<<"T", "h", "i", "s", " ", "i", "s", " ", "t", "h", "e", " ", "f", "i", "r", "s", "t", " ", "p", "o", "s", "t">>),
              Str(<<"1">>)),
      NewPost(Str(<<"2">>), Str(<<"S", "e", "c", "o", "n", "d", " ", "P", "o", "s", "t">>),
              Str(<<"T", "h", "i", "s", " ", "i", "s", " ", "t", "h", "e", " ", "s", "e", "c", "o", "n", "d", " ", "p", "o", "s", "t">>),
              Str(<<"2">>)),
      NewPost(Str(<<"3">>), Str(<<"T", "h", "i", "r", "d", " ", "P", "o", "s", "t">>),
              Str(<<"T", "h", "i", "s", " ", "i", "s", " ", "t", "h", "e", " ", "t", "h", "i", "r", "d", " ", "p", "o", "s", "t">>),
              Str(<<"1">>))>>

\* String(n) of a non-negative integer: its decimal digits
Digits == <<"0", "1", "2", "3", "4", "5", "6", "7", "8", "9">>
RECURSIVE Decimal(_)
Decimal(n) ==
    IF n < 10 THEN <<Digits[n + 1]>>
    ELSE Append(Decimal(n \div 10), Digits[(n % 10) + 1])
String(n) == Str(Decimal(n))

\* Array.prototype.findIndex(x => x.id === id): the 0-based index of the first
\* match, -1 when there is none
RECURSIVE findIndexFrom(_, _, _)
findIndexFrom(xs, id, i) ==
    IF i > Len(xs) THEN -1
    ELSE IF xs[i].id = id THEN i - 1
    ELSE findIndexFrom(xs, id, i + 1)
findIndex(xs, id) == findIndexFrom(xs, id, 1)

\* Array.prototype.find(x => x.id === id): the first match, or undefined
find(xs, id) == IF findIndex(xs, id) = -1 THEN Undefined ELSE xs[findIndex(xs, id) + 1]

\* Array.prototype.splice(start, 1): the array without the element at `start`
splice(xs, start) == SubSeq(xs, 1, start) \o SubSeq(xs, start + 2, Len(xs))

\* resolvers.Query
Query_users(us) == us
Query_user(us, id) == find(us, id)

\* resolvers.Mutation: each gives the array afterwards and the value returned
Mutation_createUser(us, name, email, age) ==
    [users |-> Append(us, NewUser(String(Len(us) + 1), name, email, age)),
     result |-> NewUser(String(Len(us) + 1), name, email, age)]

\* `if (v !== undefined) user.k = v`
\* the assignment without its test for undefined
assignAlways(user, k, v) == [user EXCEPT ![k] = v]

assign(user, k, v) == IF v # Undefined THEN [user EXCEPT ![k] = v] ELSE user

\* the three assignments of updateUser at array index userIndex
updatedAt(us, userIndex, name, email, age) ==
    [us EXCEPT ![userIndex + 1] =
        assign(assign(assign(@, "name", name), "email", email), "age", age)]

Mutation_updateUser(us, id, name, email, age) ==
    IF findIndex(us, id) = -1 THEN [users |-> us, result |-> Null]
    ELSE [users |-> updatedAt(us, findIndex(us, id), name, email, age),
          result |-> updatedAt(us, findIndex(us, id), name, email, age)[findIndex(us, id) + 1]]

\* deleteUser with users.splice(userIndex): everything from the index on goes
Mutation_deleteUserSpliceRest(us, id) ==
    IF findIndex(us, id) = -1 THEN [users |-> us, result |-> Bool(FALSE)]
    ELSE [users |-> SubSeq(us, 1, findIndex(us, id)), result |-> Bool(TRUE)]

Mutation_deleteUser(us, id) ==
    IF findIndex(us, id) = -1 THEN [users |-> us, result |-> Bool(FALSE)]
    ELSE [users |-> splice(us, findIndex(us, id)), result |-> Bool(TRUE)]

\* type User { id: ID!  name: String!  email: String!  age: Int! }
WellTypedUser(u) ==
    u.id.t = "str" /\ u.name.t = "str" /\ u.email.t = "str" /\ u.age.t = "num"

\* what the server answers to an operation: its data, and whether it has errors
ExecutionResult(errors, data) == [errors |-> errors, data |-> data]

\* users: [User!]!  a null in a non-null field leaves no data at all
execUsers(us) ==
    IF \A i \in 1..Len(us) : WellTypedUser(Query_users(us)[i])
    THEN ExecutionResult(FALSE, [users |-> Query_users(us)])
    ELSE ExecutionResult(TRUE, Null)

\* user(id: ID!): User  the field is nullable: undefined is answered as null,
\* and so is a user with a null in a non-null field, with an error
execUser(us, id) ==
    IF Query_user(us, id) = Undefined THEN ExecutionResult(FALSE, [user |-> Null])
    ELSE IF WellTypedUser(Query_user(us, id))
    THEN ExecutionResult(FALSE, [user |-> Query_user(us, id)])
    ELSE ExecutionResult(TRUE, [user |-> Null])

\* deleteUser(id: ID!): Boolean!
execDeleteUser(us, id) ==
    ExecutionResult(FALSE, [deleteUser |-> Mutation_deleteUser(us, id).result])

----------------------------------------------------------------------------
(* The Go backend: the generated client and the REST handlers *)

Nil == [t |-> "nil"]

\* a generated call fails when the server is not reached or answers with errors
Failed(served, r) == ~served \/ r.errors
Err == [err |-> TRUE, resp |-> Nil]
Ok(resp) == [err |-> FALSE, resp |-> resp]

GetUsers(served, r) ==
    IF Failed(served, r) THEN Err ELSE Ok([Users |-> r.data.users])

\* no response when the user is null
GetUser(served, r) ==
    IF Failed(served, r) THEN Err
    ELSE IF r.data.user = Null THEN Ok(Nil)
    ELSE Ok([User |-> r.data.user])

DeleteUser(served, r) ==
    IF Failed(served, r) THEN Err ELSE Ok([DeleteUser |-> r.data.deleteUser.v])

\* c.JSON(status, body)
JSON(code, obj) == [status |-> code, body |-> obj]

\* a panic in a handler: the Recovery middleware of gin.Default() answers 500
Recovered == JSON(500, [recovered |-> TRUE])

getUsers(call) ==
    IF call.err THEN JSON(500, [error |-> "Failed to fetch users"])
    ELSE IF call.resp = Nil THEN Recovered
    \* users.Users[0]: the index is out of range on an empty list
    ELSE IF Len(call.resp.Users) = 0 THEN Recovered
    ELSE JSON(200, [data |-> call.resp, count |-> Len(call.resp.Users)])

\* getUserByID without its check for a missing response
getUserByIDUnchecked(call) ==
    IF call.err THEN JSON(500, [error |-> "Failed to fetch user"])
    ELSE JSON(200, [data |-> call.resp])

getUserByID(call) ==
    IF call.err THEN JSON(500, [error |-> "Failed to fetch user"])
    ELSE IF call.resp = Nil THEN JSON(404, [error |-> "User not found"])
    ELSE JSON(200, [data |-> call.resp.User])

deleteUser(call) ==
    IF call.err THEN JSON(500, [error |-> "Failed to delete user"])
    ELSE IF call.resp = Nil THEN Recovered
    ELSE IF ~call.resp.DeleteUser THEN JSON(404, [error |-> "User not found"])
    ELSE JSON(200, [message |-> "User deleted successfully",
                    deleted |-> call.resp.DeleteUser])

----------------------------------------------------------------------------
(* Requests to the server and to the backend *)

\* the number of mutations a run sends
MaxRequests == 3

\* ids a request names: the sample users' and the next one created
Ids == {Str(<<"1">>), Str(<<"2">>), Str(<<"3">>), Str(<<"4">>)}

\* createUser(name: String!, email: String!, age: Int!)
CreateArgs ==
    {[name |-> Str(<<"A", "l">>), email |-> Str(<<"a", "l", "@", "x">>), age |-> Num(28)]}

\* updateUser(id: ID!, name: String, email: String, age: Int): an argument is
\* left out (undefined), null, or a value
UpdateArgs ==
    {[name |-> Undefined, email |-> Undefined, age |-> Undefined],
     [name |-> Str(<<"E", "d">>), email |-> Undefined, age |-> Undefined],
     [name |-> Undefined, email |-> Str(<<"e", "d", "@", "x">>), age |-> Num(40)],
     [name |-> Null, email |-> Undefined, age |-> Undefined]}

storeVars == <<users, posts, last, requests>>
allVars == <<vars, storeVars>>

NoRequest == [op |-> "none"]

\* the server after start-up, before any request
StoreInit ==
    /\ users = SampleUsers
    /\ posts = SamplePosts
    /\ last = NoRequest
    /\ requests = 0

\* mutation createUser sent to the GraphQL endpoint
CreateUser ==
    /\ requests < MaxRequests
    /\ \E a \in CreateArgs :
        /\ users' = Mutation_createUser(users, a.name, a.email, a.age).users
        /\ last' = [op |-> "createUser", before |-> users,
                    result |-> Mutation_createUser(users, a.name, a.email, a.age).result]
    /\ requests' = requests + 1
    /\ UNCHANGED <<posts, vars>>

\* mutation updateUser sent to the GraphQL endpoint
UpdateUser ==
    /\ requests < MaxRequests
    /\ \E id \in Ids, a \in UpdateArgs :
        /\ users' = Mutation_updateUser(users, id, a.name, a.email, a.age).users
        /\ last' = [op |-> "updateUser", id |-> id, args |-> a, before |-> users,
                    result |-> Mutation_updateUser(users, id, a.name, a.email, a.age).result]
    /\ requests' = requests + 1
    /\ UNCHANGED <<posts, vars>>

\* DELETE /api/users/:id; the mutation runs when the server is reached
RestDeleteUser ==
    /\ requests < MaxRequests
    /\ \E id \in Ids, served \in BOOLEAN :
        /\ users' = IF served THEN Mutation_deleteUser(users, id).users ELSE users
        /\ last' = [op |-> "DELETE", id |-> id, served |-> served, before |-> users,
                    result |-> IF served THEN Mutation_deleteUser(users, id).result
                               ELSE Undefined,
                    response |-> deleteUser(DeleteUser(served, execDeleteUser(users, id)))]
    /\ requests' = requests + 1
    /\ UNCHANGED <<posts, vars>>

\* GET /api/users
RestGetUsers ==
    /\ \E served \in BOOLEAN :
        last' = [op |-> "GET users", served |-> served, before |-> users,
                 response |-> getUsers(GetUsers(served, execUsers(users)))]
    /\ UNCHANGED <<users, posts, requests, vars>>

\* GET /api/users/:id
RestGetUserByID ==
    /\ \E id \in Ids, served \in BOOLEAN :
        last' = [op |-> "GET user", id |-> id, served |-> served, before |-> users,
                 result |-> execUser(users, id).data.user,
                 response |-> getUserByID(GetUser(served, execUser(users, id)))]
    /\ UNCHANGED <<users, posts, requests, vars>>

StoreNext ==
    \/ CreateUser
    \/ UpdateUser
    \/ RestDeleteUser
    \/ RestGetUsers
    \/ RestGetUserByID

\* the schema script is a separate process; it is not running here
ScriptIdle ==
    /\ pc = "start"
    /\ body = NotJson
    /\ promise = Pending
    /\ ended = FALSE
    /\ errored = FALSE
    /\ schema = Undefined
    /\ schemaContent = Undefined
    /\ file = Absent
    /\ console = <<>>
    /\ stderr = Undefined
    /\ exitCode = -1
    /\ renderCalls = 0

ServerInit == StoreInit /\ ScriptIdle

StoreSpec == ServerInit /\ [][StoreNext]_allVars

----------------------------------------------------------------------------
(* main() *)

Init ==
    /\ pc = "start"
    /\ body \in Bodies
    /\ promise = Pending
    /\ ended = FALSE
    /\ errored = FALSE
    /\ schema = Undefined
    /\ schemaContent = Undefined
    /\ file \in {Absent, OldFile}
    /\ console = <<>>
    /\ stderr = Undefined
    /\ exitCode = -1
    /\ renderCalls = 0

\* the handlers run while main awaits the promise: once it is settled main runs
\* to its end before another event is handled
Running == pc = "awaiting"

\* main up to `await fetchSchema(url)`: the request is written and ended
MainStart ==
    /\ pc = "start"
    /\ pc' = "awaiting"
    /\ console' = Append(console, [line |-> "Fetching schema"])
    /\ UNCHANGED <<body, promise, ended, errored, schema, schemaContent, file,
                   stderr, exitCode, renderCalls>>

\* res.on('end', ...)
ResEnd ==
    /\ Running
    /\ ~ended /\ ~errored
    /\ ended' = TRUE
    /\ promise' = settle(promise, onEnd(body).state, onEnd(body).value)
    /\ UNCHANGED <<pc, body, errored, schema, schemaContent, file, console,
                   stderr, exitCode, renderCalls>>

\* req.on('error', ...)
ReqError ==
    /\ Running
    /\ ~errored
    /\ errored' = TRUE
    /\ promise' = settle(promise, onError.state, onError.value)
    /\ UNCHANGED <<pc, body, ended, schema, schemaContent, file, console,
                   stderr, exitCode, renderCalls>>

\* catch (error) { console.error(error.message); process.exit(1) }
catch(message) ==
    /\ stderr' = message
    /\ exitCode' = 1
    /\ pc' = "exited"

\* main resumes when the promise is settled: a rejection is thrown at the await
AwaitResume ==
    /\ pc = "awaiting"
    /\ promise.state # "pending"
    /\ IF promise.state = "rejected"
       THEN /\ catch(promise.value)
            /\ UNCHANGED <<schema, console>>
       ELSE /\ schema' = promise.value
            /\ console' = Append(console, [line |-> "Generating schema.graphql"])
            /\ pc' = "generate"
            /\ UNCHANGED <<stderr, exitCode>>
    /\ UNCHANGED <<body, promise, ended, errored, schemaContent, file, renderCalls>>

\* the renderer opening schema.graphql for writing before it renders
GenerateOpeningFile ==
    /\ pc = "generate"
    /\ renderCalls' = renderCalls + 1
    /\ console' = console \o foundLine(schema)
    /\ file' = Str(<<>>)
    /\ IF IsThrow(generateSchemaFromIntrospection(schema))
       THEN /\ catch(messageOf(generateSchemaFromIntrospection(schema)))
            /\ UNCHANGED schemaContent
       ELSE /\ schemaContent' = generateSchemaFromIntrospection(schema)
            /\ pc' = "write"
            /\ UNCHANGED <<stderr, exitCode>>
    /\ UNCHANGED <<body, promise, ended, errored, schema>>

\* const schemaContent = generateSchemaFromIntrospection(schema)
Generate ==
    /\ pc = "generate"
    /\ renderCalls' = renderCalls + 1
    /\ console' = console \o foundLine(schema)
    /\ IF IsThrow(generateSchemaFromIntrospection(schema))
       THEN /\ catch(messageOf(generateSchemaFromIntrospection(schema)))
            /\ UNCHANGED schemaContent
       ELSE /\ schemaContent' = generateSchemaFromIntrospection(schema)
            /\ pc' = "write"
            /\ UNCHANGED <<stderr, exitCode>>
    /\ UNCHANGED <<body, promise, ended, errored, schema, file>>

\* fs.writeFileSync('schema.graphql', schemaContent) returns
WriteFile ==
    /\ pc = "write"
    /\ file' = Str(ToStr(schemaContent))
    /\ console' = Append(console, [line |-> "Schema saved to schema.graphql"])
    /\ pc' = "done"
    /\ exitCode' = 0
    /\ UNCHANGED <<body, promise, ended, errored, schema, schemaContent, stderr,
                   renderCalls>>

\* fs.writeFileSync throws: the file could not be opened and is untouched, or
\* it was opened (truncated) and the write failed
WriteFails ==
    /\ pc = "write"
    /\ file' \in {file, Str(<<>>)}
    /\ catch(Str(<<"E", "A", "C", "C", "E", "S", ":", " ", "p", "e", "r", "m", "i", "s", "s", "i", "o", "n", " ", "d", "e", "n", "i", "e", "d">>))
    /\ UNCHANGED <<body, promise, ended, errored, schema, schemaContent, console,
                   renderCalls>>

\* the steps of the script; the server is a separate process whose store they
\* leave alone
Next ==
    \/ MainStart /\ UNCHANGED storeVars
    \/ ResEnd /\ UNCHANGED storeVars
    \/ ReqError /\ UNCHANGED storeVars
    \/ AwaitResume /\ UNCHANGED storeVars
    \/ Generate /\ UNCHANGED storeVars
    \/ WriteFile /\ UNCHANGED storeVars
    \/ WriteFails /\ UNCHANGED storeVars

\* the script starts while the server holds its sample data
ScriptInit == Init /\ StoreInit

Spec == ScriptInit /\ [][Next]_allVars

----------------------------------------------------------------------------
(* Reading the inputs and the output back, for the properties below *)

Elems(v) == IF isArray(v) THEN {v.v[i] : i \in 1..Len(v.v)} ELSE {}

\* the types array of a payload, when the renderer gets one
TypesOf(payload) ==
    IF IsThrow(checkedTypes(payload)) THEN <<>> ELSE checkedTypes(payload).v

\* every type reference a payload carries: of fields, arguments and input fields
RefsOf(payload) ==
    LET types == {ty \in Elems(Arr(TypesOf(payload))) : ty.t = "obj"}
        fields == UNION {Elems(Get(ty, "fields")) : ty \in types}
        inputs == UNION {Elems(Get(ty, "inputFields")) : ty \in types}
        args == UNION {Elems(Get(f, "args")) : f \in fields}
    IN  {Get(x, "type") : x \in fields \cup inputs \cup args}

IsWrapper(ref) == Get(ref, "kind") \in {Kind("NON_NULL"), Kind("LIST")}

\* the TypeRef shape: a wrapper carries ofType and no name, a named type carries
\* a name and no ofType, so exactly one of the two is set at every node
RECURSIVE NestingInvariant(_)
NestingInvariant(ref) ==
    /\ ref.t = "obj"
    /\ IF IsWrapper(ref)
       THEN /\ IsNullish(Get(ref, "name"))
            /\ ~IsNullish(Get(ref, "ofType"))
            /\ NestingInvariant(Get(ref, "ofType"))
       ELSE /\ Get(ref, "name").t = "str"
            /\ Get(ref, "name").v # <<>>
            /\ IsNullish(Get(ref, "ofType"))

\* no NON_NULL node directly wraps a NON_NULL node
RECURSIVE NoDoubleNonNull(_)
NoDoubleNonNull(ref) ==
    \/ ~IsWrapper(ref)
    \/ /\ ~(Get(ref, "kind") = Kind("NON_NULL")
            /\ Get(Get(ref, "ofType"), "kind") = Kind("NON_NULL"))
       /\ NoDoubleNonNull(Get(ref, "ofType"))

\* the wrapper kinds of a reference, outermost first, and the name they wrap
RECURSIVE WrapperKinds(_)
WrapperKinds(ref) ==
    IF IsWrapper(ref) THEN <<Get(ref, "kind").v>> \o WrapperKinds(Get(ref, "ofType"))
    ELSE <<>>

RECURSIVE NamedType(_)
NamedType(ref) == IF IsWrapper(ref) THEN NamedType(Get(ref, "ofType")) ELSE Get(ref, "name").v

\* an opening bracket per LIST, outermost first; then, innermost first, a closing
\* bracket per LIST and a '!' per NON_NULL
Opening(ws) == SelectSeq([i \in 1..Len(ws) |-> IF ws[i] = "LIST" THEN "[" ELSE ""],
                         LAMBDA c : c # "")
Closing(ws) == [i \in 1..Len(ws) |->
                   IF ws[Len(ws) + 1 - i] = "LIST" THEN "]" ELSE "!"]
TypeText(ref) ==
    Opening(WrapperKinds(ref)) \o NamedType(ref) \o Closing(WrapperKinds(ref))

IsName(text) == Len(text) > 0 /\ \A i \in 1..Len(text) : text[i] \notin {"[", "]", "!", " ", NL}

\* the grammar  T ::= Name | Name! | [T] | [T]!
RECURSIVE MatchesGrammar(_)
MatchesGrammar(text) ==
    LET core == IF Len(text) > 0 /\ text[Len(text)] = "!"
                THEN SubSeq(text, 1, Len(text) - 1) ELSE text
    IN  \/ IsName(core)
        \/ /\ Len(core) >= 2
           /\ core[1] = "[" /\ core[Len(core)] = "]"
           /\ MatchesGrammar(SubSeq(core, 2, Len(core) - 1))

\* text occurs in a longer text
Contains(text, part) ==
    \E i \in 0..(Len(text) - Len(part)) : SubSeq(text, i + 1, i + Len(part)) = part

\* getTypeString follows the three rules at the root of ref
RulesAt(ref) ==
    IF Get(ref, "kind") = Kind("NON_NULL")
    THEN getTypeString(ref) = Str(getTypeString(Get(ref, "ofType")).v \o <<"!">>)
    ELSE IF Get(ref, "kind") = Kind("LIST")
    THEN getTypeString(ref) = Str(<<"[">> \o getTypeString(Get(ref, "ofType")).v \o <<"]">>)
    ELSE getTypeString(ref) = Get(ref, "name")

Renders(ref) ==
    /\ ~IsThrow(getTypeString(ref))
    /\ RulesAt(ref)
    /\ getTypeString(ref) = Str(TypeText(ref))

----------------------------------------------------------------------------
(* The properties *)

\* C1 as stated: every reference of the payload in hand that has exactly one of
\* name/ofType set at each node renders by the three rules to a text of the
\* grammar Name | Name! | [T] | [T]!
C1_Original ==
    \A ref \in RefsOf(schema) :
        NestingInvariant(ref) =>
            Renders(ref) /\ MatchesGrammar(getTypeString(ref).v)

\* C1 (amended): every such reference renders by the three rules, to the opening
\* brackets, the name and the closing marks of its wrappers; the text is of the
\* grammar whenever no NON_NULL directly wraps a NON_NULL
C1_TypeString ==
    \A ref \in RefsOf(schema) :
        NestingInvariant(ref) =>
            /\ Renders(ref)
            /\ NoDoubleNonNull(ref) => MatchesGrammar(getTypeString(ref).v)
            /\ ~NoDoubleNonNull(ref) => Contains(getTypeString(ref).v, <<"!", "!">>)

\* a run that wrote the rendering of NON_NULL(LIST(NON_NULL(String)))
C1_Witness ==
    /\ pc = "done"
    /\ ListRef \in RefsOf(schema)
    /\ NestingInvariant(ListRef)
    /\ getTypeString(ListRef) = Str(<<"[", "S", "t", "r", "i", "n", "g", "!", "]", "!">>)
    /\ Contains(file.v, <<":", " ">> \o <<"[", "S", "t", "r", "i", "n", "g", "!", "]", "!">> \o <<NL>>)

\* the lines of a text: the pieces between line feeds
RECURSIVE SplitLines(_, _)
SplitLines(text, line) ==
    IF text = <<>> THEN (IF line = <<>> THEN <<>> ELSE <<line>>)
    ELSE IF Head(text) = NL THEN <<line>> \o SplitLines(Tail(text), <<>>)
    ELSE SplitLines(Tail(text), Append(line, Head(text)))

Lines(text) == SplitLines(text, <<>>)

Keywords == {<<"t", "y", "p", "e", " ">>, <<"i", "n", "p", "u", "t", " ">>, <<"e", "n", "u", "m", " ">>}

\* a block opens with a line `<keyword> <Name> {` that starts in the first column
IsHeader(line) ==
    /\ \E kw \in Keywords : startsWith(line, kw)
    /\ Len(line) >= 2 /\ SubSeq(line, Len(line) - 1, Len(line)) = <<" ", "{">>

HeaderOf(line) ==
    LET kw == CHOOSE k \in Keywords : startsWith(line, k)
    IN  [kw |-> kw, name |-> SubSeq(line, Len(kw) + 1, Len(line) - 2)]

\* the headers of the blocks of a text, in the order of the text
Blocks(text) ==
    LET heads == SelectSeq(Lines(text), IsHeader)
    IN  [i \in 1..Len(heads) |-> HeaderOf(heads[i])]

\* the filtering rule: name present, not an introspection meta-type, and of
\* kind OBJECT, <<"i", "n", "p", "u", "t", " ">>OBJECT or ENUM
ShouldRender(desc) ==
    /\ Get(desc, "name").t = "str"
    /\ Get(desc, "name").v # <<>>
    /\ ~(Len(Get(desc, "name").v) >= 2
         /\ Get(desc, "name").v[1] = "_" /\ Get(desc, "name").v[2] = "_")
    /\ Get(desc, "kind").v \in {"OBJECT", "INPUT_OBJECT", "ENUM"}

\* the header the block of a descriptor opens with
ExpectedHeader(desc) ==
    [kw |-> CASE Get(desc, "kind").v = "OBJECT" -> <<"t", "y", "p", "e", " ">>
              [] Get(desc, "kind").v = "INPUT_OBJECT" -> <<"i", "n", "p", "u", "t", " ">>
              [] Get(desc, "kind").v = "ENUM" -> <<"e", "n", "u", "m", " ">>
              [] OTHER -> <<>>,
     name |-> ToStr(Get(desc, "name"))]

\* the payload in hand is a sequence of type descriptors
DescriptorsIn(payload) ==
    /\ ~IsThrow(checkedTypes(payload))
    /\ \A i \in 1..Len(TypesOf(payload)) :
          /\ TypesOf(payload)[i].t = "obj"
          /\ Get(TypesOf(payload)[i], "kind").t = "kind"
          /\ Get(TypesOf(payload)[i], "name").t \in {"str", "null", "undefined"}

\* generateSchemaFromIntrospection has returned a text in this run
Rendered == renderCalls = 1 /\ schemaContent.t = "str"
\* generateSchemaFromIntrospection has thrown in this run
RenderThrew == renderCalls = 1 /\ pc = "exited" /\ schemaContent.t # "str"

\* C2: a descriptor has a block in the rendered output exactly when its name is
\* present, does not start with '__' and its kind is OBJECT, <<"i", "n", "p", "u", "t", " ">>OBJECT or ENUM;
\* and when rendering throws, a descriptor that passes the filter throws
C2_Filter ==
    DescriptorsIn(schema) =>
        /\ Rendered =>
              \A i \in 1..Len(TypesOf(schema)) :
                 ShouldRender(TypesOf(schema)[i]) <=>
                    \E j \in 1..Len(Blocks(schemaContent.v)) :
                       Blocks(schemaContent.v)[j] = ExpectedHeader(TypesOf(schema)[i])
        /\ RenderThrew =>
              \E i \in 1..Len(TypesOf(schema)) :
                 /\ ShouldRender(TypesOf(schema)[i])
                 /\ IsThrow(renderType(TypesOf(schema)[i]))

\* the filtering example: blocks for User, Role and CreateUserInput only
C2_Witness ==
    /\ pc = "done"
    /\ TypesOf(schema) = ExampleTypes.v
    /\ Blocks(file.v) = <<[kw |-> <<"t", "y", "p", "e", " ">>, name |-> <<"U", "s", "e", "r">>], [kw |-> <<"e", "n", "u", "m", " ">>, name |-> <<"R", "o", "l", "e">>],
                          [kw |-> <<"i", "n", "p", "u", "t", " ">>, name |-> <<"C", "r", "e", "a", "t", "e", "U", "s", "e", "r", "I", "n", "p", "u", "t">>]>>
    /\ ~Contains(file.v, <<"_", "_", "T", "y", "p", "e">>) /\ ~Contains(file.v, <<"S", "e", "a", "r", "c", "h", "R", "e", "s", "u", "l", "t">>)

\* C3: the blocks of the output are the descriptors that pass the filter, one
\* block each, in input order
C3_Order ==
    (DescriptorsIn(schema) /\ Rendered) =>
        LET kept == SelectSeq(TypesOf(schema), ShouldRender)
        IN  Blocks(schemaContent.v) = [i \in 1..Len(kept) |-> ExpectedHeader(kept[i])]

\* two descriptors of one name around a dropped one give two blocks
C3_Witness ==
    /\ pc = "done"
    /\ Len(TypesOf(schema)) = 3
    /\ TypesOf(schema)[1] = TypesOf(schema)[3]
    /\ ShouldRender(TypesOf(schema)[1]) /\ ~ShouldRender(TypesOf(schema)[2])
    /\ Blocks(file.v) = <<[kw |-> <<"t", "y", "p", "e", " ">>, name |-> <<"U", "s", "e", "r">>], [kw |-> <<"t", "y", "p", "e", " ">>, name |-> <<"U", "s", "e", "r">>]>>

\* `types` is a sequence at the top level of the payload or under its __schema key
TypesPresent(payload) ==
    \/ isArray(Get(payload, "types"))
    \/ isArray(Get(Get(payload, "__schema"), "types"))

\* the place the renderer reads: under __schema when the payload has a truthy
\* __schema, the top level otherwise
TypesRead(payload) ==
    IF Get(payload, "__schema").t \in {"obj", "arr"}
       \/ (Get(payload, "__schema").t = "str" /\ Get(payload, "__schema").v # <<>>)
    THEN Get(Get(payload, "__schema"), "types")
    ELSE Get(payload, "types")

\* the run ended on the StructureError
StructureErrorRaised ==
    pc = "exited" /\ renderCalls = 1 /\ stderr = Str(<<"I", "n", "v", "a", "l", "i", "d", " ", "s", "c", "h", "e", "m", "a", " ", "s", "t", "r", "u", "c", "t", "u", "r", "e", ":", " ", "t", "y", "p", "e", "s", " ", "n", "o", "t", " ", "f", "o", "u", "n", "d", " ", "o", "r", " ", "n", "o", "t", " ", "a", "n", " ", "a", "r", "r", "a", "y">>)

\* C4 as stated: once the renderer has been invoked on an object payload, it has
\* failed with the StructureError exactly when `types` is a sequence neither at
\* the top level nor under __schema
C4_Original ==
    (renderCalls = 1 /\ schema.t = "obj") =>
        (StructureErrorRaised <=> ~TypesPresent(schema))

\* C4 (amended): the renderer reads `types` under __schema when the payload has a
\* truthy __schema and at the top level otherwise; on a payload that is not
\* null/undefined it fails with the StructureError exactly when what it reads
\* there is not a sequence, and a null/undefined payload fails with a TypeError
C4_Structure ==
    renderCalls = 1 =>
        /\ ~IsNullish(schema) => (StructureErrorRaised <=> ~isArray(TypesRead(schema)))
        /\ IsNullish(schema) => (pc = "exited" /\ stderr = Str(<<"C", "a", "n", "n", "o", "t", " ", "r", "e", "a", "d", " ", "p", "r", "o", "p", "e", "r", "t", "i", "e", "s">>))

\* a payload with `types` at the top level and a __schema without it is refused
C4_Witness ==
    /\ StructureErrorRaised
    /\ isArray(Get(schema, "types"))
    /\ Get(schema, "__schema").t = "obj"
    /\ ~isArray(Get(Get(schema, "__schema"), "types"))

\* the response body makes fetchSchema fail
BodyFails(b) ==
    \/ ~b.json
    \/ IsNullish(b.value)
    \/ Get(b.value, "errors").t \in {"arr", "obj"}
    \/ Get(b.value, "errors").t = "str" /\ Get(b.value, "errors").v # <<>>

\* the request failed before the response ended
NetworkFailed == errored /\ ~ended

\* the text main prints carries the detail of the failure
DetailSurfaced ==
    IF NetworkFailed THEN Contains(stderr.v, <<"c", "o", "n", "n", "e", "c", "t", " ", "E", "C", "O", "N", "N", "R", "E", "F", "U", "S", "E", "D">>)
    ELSE IF ~body.json THEN Contains(stderr.v, <<"U", "n", "e", "x", "p", "e", "c", "t", "e", "d", " ", "t", "o", "k", "e", "n", " ", "<">>)
    ELSE IF IsNullish(body.value) THEN Contains(stderr.v, <<"C", "a", "n", "n", "o", "t", " ", "r", "e", "a", "d", " ", "p", "r", "o", "p", "e", "r", "t", "i", "e", "s">>)
    ELSE /\ Contains(stderr.v, <<"G", "r", "a", "p", "h", "Q", "L", " ", "e", "r", "r", "o", "r", "s", ":", " ">>)
         /\ \A e \in Elems(Get(body.value, "errors")) :
               Contains(stderr.v, Get(e, "message").v)

\* C5: when the fetch fails (network error, body that is not JSON, response
\* carrying `errors`) the renderer is not invoked in the run, and the message
\* printed at exit contains the upstream detail
C5_FetchFailure ==
    (NetworkFailed \/ (ended /\ BodyFails(body))) =>
        /\ renderCalls = 0
        /\ pc \in {"awaiting", "exited"}
        /\ promise.state = "rejected"
        /\ pc = "exited" => (exitCode = 1 /\ stderr.t = "str" /\ DetailSurfaced)

\* the response {"errors":[{"message":"boom"}]} ended the run with "boom" printed
C5_Witness ==
    /\ pc = "exited"
    /\ ended
    /\ Get(body.value, "errors") = Arr(<<Boom>>)
    /\ renderCalls = 0
    /\ Contains(stderr.v, <<"b", "o", "o", "m">>)

\* the run failed in the fetch or in the renderer
RunFailed == pc = "exited" /\ (renderCalls = 0 \/ schemaContent.t # "str")

\* C6: schema.graphql changes only in the write that follows a fetch that
\* resolved and a rendering that returned; a run that fails in the fetch or in
\* the renderer exits with status 1 and leaves the file as it was before the run
C6_WriteLast ==
    /\ [](RunFailed =>
            /\ exitCode = 1
            /\ file \in {Absent, OldFile}
            /\ \A i \in 1..Len(console) : console[i].line # "Schema saved to schema.graphql")
    /\ [][file' # file =>
            /\ pc = "write"
            /\ promise.state = "resolved"
            /\ renderCalls = 1
            /\ schemaContent.t = "str"]_vars

\* a run that failed in the renderer with the old file in place
C6_Witness ==
    /\ RunFailed
    /\ renderCalls = 1
    /\ file = OldFile
    /\ exitCode = 1

\* a reference cut by the query: QueryDepth wrappers below the outermost one,
\* the deepest of them fetched without its ofType
RECURSIVE TruncatedAt(_, _)
TruncatedAt(ref, depth) ==
    /\ ref.t = "obj"
    /\ IsWrapper(ref)
    /\ IF depth = 0 THEN Get(ref, "ofType") = Undefined
       ELSE TruncatedAt(Get(ref, "ofType"), depth - 1)

Truncated(ref) == TruncatedAt(ref, QueryDepth)

\* the references the renderer unwraps: of the fields and arguments of the object
\* types and of the input fields of the input types that pass the filter
UnwrappedRefs(payload) ==
    LET kept == {ty \in Elems(Arr(TypesOf(payload))) : ty.t = "obj" /\ ShouldRender(ty)}
        fields == UNION {Elems(Get(ty, "fields")) :
                            ty \in {k \in kept : Get(k, "kind") = Kind("OBJECT")}}
        inputs == UNION {Elems(Get(ty, "inputFields")) :
                            ty \in {k \in kept : Get(k, "kind") = Kind("INPUT_OBJECT")}}
        args == UNION {Elems(Get(f, "args")) : f \in fields}
    IN  {Get(x, "type") : x \in fields \cup inputs \cup args}

\* C7 as stated: when a reference the renderer unwraps was cut by the query,
\* rendering completes without an error and a document is produced
C7_Original ==
    (renderCalls = 1 /\ DescriptorsIn(schema)
        /\ \E ref \in UnwrappedRefs(schema) : Truncated(ref))
    => schemaContent.t = "str"

\* C7 (amended): when a reference the renderer unwraps was cut by the query,
\* getTypeString throws a TypeError on the missing ofType; the run prints it,
\* exits with status 1 and writes no document
C7_Truncation ==
    (renderCalls = 1 /\ DescriptorsIn(schema)
        /\ \E ref \in UnwrappedRefs(schema) : Truncated(ref))
    => /\ \A ref \in UnwrappedRefs(schema) :
             Truncated(ref) => getTypeString(ref) = TypeError
       /\ pc = "exited"
       /\ stderr = Str(<<"C", "a", "n", "n", "o", "t", " ", "r", "e", "a", "d", " ", "p", "r", "o", "p", "e", "r", "t", "i", "e", "s">>)
       /\ exitCode = 1
       /\ schemaContent.t # "str"
       /\ file \in {Absent, OldFile}

\* the served reference [[[[Int!]!]!]!] (eight wrappers) reached the renderer
DeepRef ==
    TypeRefFragment(FullRef(<<"LIST", "NON_NULL", "LIST", "NON_NULL", "LIST", "NON_NULL",
                              "LIST", "NON_NULL">>, <<"I", "n", "t">>), QueryDepth)
C7_Witness ==
    /\ pc = "exited"
    /\ renderCalls = 1
    /\ DeepRef \in UnwrappedRefs(schema)
    /\ Truncated(DeepRef)
    /\ exitCode = 1

\* the blocks of a text as groups of lines, each closed by its empty line
RECURSIVE GroupBlocks(_, _)
GroupBlocks(lines, block) ==
    IF lines = <<>> THEN (IF block = <<>> THEN <<>> ELSE <<block>>)
    ELSE IF Head(lines) = <<>> THEN <<Append(block, <<>>)>> \o GroupBlocks(Tail(lines), <<>>)
    ELSE GroupBlocks(Tail(lines), Append(block, Head(lines)))

BlockLines(text) == GroupBlocks(Lines(text), <<>>)

\* the text of groups of lines, every line ended by a line feed
RECURSIVE Unlines(_)
Unlines(lines) == IF lines = <<>> THEN <<>> ELSE Head(lines) \o <<NL>> \o Unlines(Tail(lines))

RECURSIVE Unblocks(_)
Unblocks(blocks) ==
    IF blocks = <<>> THEN <<>> ELSE Unlines(Head(blocks)) \o Unblocks(Tail(blocks))

RemoveAt(q, k) == SubSeq(q, 1, k - 1) \o SubSeq(q, k + 1, Len(q))

\* the descriptors of the payload in hand that pass the filtering rule
Kept == SelectSeq(TypesOf(schema), ShouldRender)

HeaderLine(desc) == ExpectedHeader(desc).kw \o ExpectedHeader(desc).name \o <<" ", "{">>

HasArgs(field) == isArray(Get(field, "args")) /\ Len(Get(field, "args").v) >= 1

GoodArg(arg) ==
    /\ arg.t = "obj"
    /\ Get(arg, "name").t = "str"
    /\ NestingInvariant(Get(arg, "type"))

GoodField(field) ==
    /\ field.t = "obj"
    /\ Get(field, "name").t = "str"
    /\ NestingInvariant(Get(field, "type"))
    /\ IsNullish(Get(field, "args")) \/ isArray(Get(field, "args"))
    /\ \A arg \in Elems(Get(field, "args")) : GoodArg(arg)

\* a1: T1, a2: T2, ... from the i-th argument on
RECURSIVE ArgList(_, _)
ArgList(args, i) ==
    IF i > Len(args) THEN <<>>
    ELSE (IF i > 1 THEN <<",", " ">> ELSE <<>>)
         \o Get(args[i], "name").v \o <<":", " ">> \o TypeText(Get(args[i], "type"))
         \o ArgList(args, i + 1)

FieldLine(field) ==
    <<" ", " ">> \o Get(field, "name").v
    \o (IF HasArgs(field) THEN <<"(">> \o ArgList(Get(field, "args").v, 1) \o <<")">> ELSE <<>>)
    \o <<":", " ">> \o TypeText(Get(field, "type"))

\* C8: the block of an object type is the line `type <Name> {`, one line per field
\* in declared order (two spaces, the name, the arguments `(a1: T1, a2: T2)` in
\* input order when and only when there is an argument, `: ` and the unwrapped
\* type), the line `}` and an empty line
C8_ObjectBlock ==
    (Rendered /\ DescriptorsIn(schema)) =>
        \A k \in 1..Len(Kept) :
            (/\ Get(Kept[k], "kind") = Kind("OBJECT")
             /\ isArray(Get(Kept[k], "fields"))
             /\ \A f \in Elems(Get(Kept[k], "fields")) : GoodField(f))
            => /\ k <= Len(BlockLines(schemaContent.v))
               /\ BlockLines(schemaContent.v)[k] =
                     <<HeaderLine(Kept[k])>>
                     \o [i \in 1..Len(Get(Kept[k], "fields").v) |->
                            FieldLine(Get(Kept[k], "fields").v[i])]
                     \o <<<<"}">>, <<>>>>
               /\ \A i \in 1..Len(Get(Kept[k], "fields").v) :
                     HasArgs(Get(Kept[k], "fields").v[i])
                        <=> Contains(BlockLines(schemaContent.v)[k][i + 1], <<"(">>)

\* a field with two arguments before a field with an empty argument list
C8_Witness ==
    /\ pc = "done"
    /\ Len(Kept) = 1
    /\ Get(Kept[1], "fields") =
          Arr(<<Field(<<"f">>, Arr(<<InputValue(<<"n">>, IntRef),
                                     InputValue(<<"l">>, ListRef)>>), IntRef),
                Field(<<"g">>, Arr(<<>>), ListRef)>>)
    /\ Lines(file.v) = <<<<"t", "y", "p", "e", " ", "Q", "u", "e", "r", "y", " ", "{">>, <<" ", " ", "f", "(", "n", ":", " ", "I", "n", "t", ",", " ", "l", ":", " ", "[", "S", "t", "r", "i", "n", "g", "!", "]", "!", ")", ":", " ", "I", "n", "t">>, <<" ", " ", "g", ":", " ", "[", "S", "t", "r", "i", "n", "g", "!", "]", "!">>, <<"}">>, <<>>>>

\* the member collection the renderer reads for a descriptor of each kind
OwnCollection(desc) ==
    CASE Get(desc, "kind").v = "OBJECT" -> Get(desc, "fields")
      [] Get(desc, "kind").v = "INPUT_OBJECT" -> Get(desc, "inputFields")
      [] Get(desc, "kind").v = "ENUM" -> Get(desc, "enumValues")

\* C9: a rendered descriptor whose member collection is null or absent gives
\* exactly its header line, `}` and an empty line; no error comes of it, and the
\* other blocks are those of the payload without it
C9_NullCollection ==
    (renderCalls = 1 /\ DescriptorsIn(schema)) =>
        /\ (\A k \in 1..Len(Kept) : IsNullish(OwnCollection(Kept[k]))) => Rendered
        /\ Rendered =>
              \A k \in 1..Len(Kept) :
                 IsNullish(OwnCollection(Kept[k])) =>
                    /\ BlockLines(schemaContent.v)[k] = <<HeaderLine(Kept[k]), <<"}">>, <<>>>>
                    /\ generateSchemaFromIntrospection(Wrapped(Arr(RemoveAt(Kept, k))))
                          = Str(Unblocks(RemoveAt(BlockLines(schemaContent.v), k)))

\* an object type with `fields: null` written between two types with members
C9_Witness ==
    /\ pc = "done"
    /\ Len(Kept) = 3
    /\ Kept[2] = TypeDescriptor("OBJECT", Str(<<"U", "s", "e", "r">>), Null, Null, Null)
    /\ ~IsNullish(OwnCollection(Kept[1])) /\ ~IsNullish(OwnCollection(Kept[3]))
    /\ BlockLines(file.v)[2] = <<<<"t", "y", "p", "e", " ", "U", "s", "e", "r", " ", "{">>, <<"}">>, <<>>>>
    /\ Contains(file.v, <<"t", "y", "p", "e", " ", "U", "s", "e", "r", " ", "{">> \o <<NL, "}", NL, NL>>)

----------------------------------------------------------------------------
(* The user store behind the REST facade *)

\* every user of the store has the non-null fields its type declares
WellTyped(us) == \A i \in 1..Len(us) : WellTypedUser(us[i])

\* C11: whatever creations, updates and deletions came before, all users deleted
\* included, a GET /api/users that reaches the server is answered 200 with the
\* full list of users and a count equal to the number of users in the store
C11_UsersList ==
    (last.op = "GET users" /\ last.served /\ WellTyped(users)) =>
        /\ last.response.status = 200
        /\ last.response.body.data.Users = users
        /\ last.response.body.count = Len(users)

\* the users of a store that carry an id
WithId(us, id) == {i \in 1..Len(us) : us[i].id = id}

Without(us, i) == [j \in 1..(Len(us) - 1) |-> IF j < i THEN us[j] ELSE us[j + 1]]

\* C13: a DELETE /api/users/:id that reaches the server: when the store holds no
\* user of that id the mutation returns false, the store stays as it was and the
\* answer is 404 'User not found'; otherwise exactly one user of that id is
\* removed, every other user stays, the mutation returns true and the answer is
\* 200; the posts stay as they were
C13_DeleteUser ==
    (last.op = "DELETE" /\ last.served) =>
        /\ posts = SamplePosts
        /\ IF WithId(last.before, last.id) = {}
           THEN /\ last.result = Bool(FALSE)
                /\ users = last.before
                /\ last.response = JSON(404, [error |-> "User not found"])
           ELSE /\ last.result = Bool(TRUE)
                /\ \E i \in WithId(last.before, last.id) : users = Without(last.before, i)
                /\ last.response.status = 200

\* two users share id 3 after a deletion and a creation; one of them is deleted
C13_Witness ==
    /\ last.op = "DELETE" /\ last.served
    /\ Cardinality(WithId(last.before, last.id)) = 2
    /\ Cardinality(WithId(users, last.id)) = 1
    /\ Len(users) = 2
    /\ last.response.status = 200

\* the field k of a user after an update: the argument when one is supplied
Expected(user, args, k) == IF args[k] = Undefined THEN user[k] ELSE args[k]

\* C14: updateUser changes, on one user of the given id, the fields among name,
\* email and age whose arguments are supplied; that user's id and its other
\* fields, every other user and the number of users stay as they were, and the
\* changed user is returned; when no user has the id it returns null and the
\* store stays as it was
C14_UpdateUser ==
    (last.op = "updateUser") =>
        IF WithId(last.before, last.id) = {}
        THEN last.result = Null /\ users = last.before
        ELSE /\ Len(users) = Len(last.before)
             /\ \E i \in WithId(last.before, last.id) :
                    /\ \A j \in 1..Len(users) : j # i => users[j] = last.before[j]
                    /\ users[i].id = last.before[i].id
                    /\ \A k \in {"name", "email", "age"} :
                           users[i][k] = Expected(last.before[i], last.args, k)
                    /\ DOMAIN users[i] = DOMAIN last.before[i]
                    /\ last.result = users[i]

\* two users share id 3; an update of email and age reaches one of them and
\* leaves its name
C14_Witness ==
    /\ last.op = "updateUser"
    /\ Cardinality(WithId(last.before, last.id)) = 2
    /\ last.args.name = Undefined /\ last.args.email # Undefined /\ last.args.age # Undefined
    /\ users # last.before
    /\ last.result.name = Str(<<"B", "o", "b", " ", "J", "o", "h", "n", "s", "o", "n">>)
    /\ last.result.age = Num(40)
    /\ users[Len(users)].age = Num(28)

====
